---- MODULE Spec2Model ----
(***************************************************************************)
(* The reservation table of libbitcoin-node (src/src/reservations.cpp):    *)
(* the table of per-peer rows, its upgradeable mutex, the pending hash     *)
(* queue it drains, and the threads that call populate, remove and         *)
(* table.  Rows are named by their slot; an item i stands for one          *)
(* (hash, height) pair.                                                    *)
(***************************************************************************)
EXTENDS Integers, Sequences, FiniteSets, TLC

\* Bounds of the model.
MaxBlocks == 3          \* Spec: the hash queue holds 0..MaxBlocks items at construction
MaxConnections == 2     \* Spec: settings.download_connections is 0..MaxConnections
NumThreads == 2         \* Spec: threads calling the table once it is constructed
MaxPending == 6         \* SpecInitialize: the hash queue holds 0..MaxPending items
MaxSize == 5            \* SpecInitialize: initialize(size) with size in 0..MaxSize
SizeBits == 3           \* width of size_t in the model (64 in the build)
BlockRequest == 2       \* max_block_request in the model (50000 in the build)
MaxCalls == 2           \* SpecFinite: every operation is called 0..MaxCalls times
MaxRows == 3            \* SpecSequential: initialize made 0..MaxRows rows

\* std::numeric_limits<size_t>::max()
max_size_t == 2^SizeBits - 1

\* static constexpr size_t max_block_request = 50000;
max_block_request == BlockRequest

\* nullptr
NULL == 0 - 1

Threads == 1..NumThreads

\* The operations of the table a thread calls.
Operations == {"populate", "remove", "rates"}

\* The calls still to be made when every operation is called without end.
Unlimited == [op \in Operations |-> 0 - 1]

\* A call of operation op is still to be made.
may_call(c, op) == c[op] # 0

\* The calls still to be made once a thread has made a call of op.
called(c, op) == [c EXCEPT ![op] = IF @ < 0 THEN @ ELSE @ - 1]

Min(a, b) == IF a < b THEN a ELSE b

\* size_t arithmetic wraps.
SizeT(n) == n % (max_size_t + 1)

VARIABLES
    hashes_,    \* hash_queue& hashes_: the pending items, front first
    table_,     \* reservation::list table_: the rows (slots) in table order
    queue,      \* queue[slot]: the items held by the row made with that slot
    mutex_,     \* upgrade_mutex mutex_
    init,       \* the constructor's call of initialize: its position and locals
    pc,         \* pc[t]: the position of thread t
    row,        \* row[t]: the row argument of t's populate or remove
    reserved,   \* reserved[t]: populate's local `reserved`
    size,       \* size[t]: reserve's local `size`
    existing,   \* existing[t]: reserve's local `existing`
    maximal,    \* maximal[t]: the row partition asked to give work, NULL when none
    it,         \* it[t]: remove's iterator, as an index into table_
    copy,       \* copy[t]: rates' local `rows`, the list table() returned to t
    original,   \* the hash queue as it was handed to the constructor
    idle,       \* idle[slot]: what row->idle() returns for the row made with that slot
    statistics, \* statistics[t]: rates' locals `active_rows` and `values`
    calls       \* calls[op]: the calls of operation op still to be made (negative: no limit)

vars == <<hashes_, table_, queue, mutex_, init, pc, row, reserved, size, existing, maximal,
          it, copy, original, idle, statistics, calls>>

\* The locals of a thread's populate call.
populate_locals == <<reserved, size, existing, maximal>>

----------------------------------------------------------------------------
\* upgrade_mutex (boost::shared_mutex): shared, upgrade and exclusive modes.

can_lock_shared(m) == ~m.exclusive

lock_shared(m) == [m EXCEPT !.shared = @ + 1]

unlock_shared(m) == [m EXCEPT !.shared = @ - 1]

\* A faulty variant: upgrade ownership is shared among the threads asking for it.
can_lock_upgrade_shared(m) == ~m.exclusive

can_lock_upgrade(m) == ~m.exclusive /\ ~m.upgrade

lock_upgrade(m) == [m EXCEPT !.upgrade = TRUE]

\* A faulty variant: the upgrade ownership is kept.
unlock_upgrade_kept(m) == m

unlock_upgrade(m) == [m EXCEPT !.upgrade = FALSE]

can_unlock_upgrade_and_lock(m) == m.shared = 0

unlock_upgrade_and_lock(m) == [m EXCEPT !.upgrade = FALSE, !.exclusive = TRUE]

can_lock(m) == m.shared = 0 /\ ~m.upgrade /\ ~m.exclusive

lock(m) == [m EXCEPT !.exclusive = TRUE]

unlock(m) == [m EXCEPT !.exclusive = FALSE]

----------------------------------------------------------------------------
\* The hash queue and the rows, as the table uses them.

\* hashes_.size()
hashes_size(hs) == Len(hs)

\* hashes_.pop(hash, height): the front item leaves the queue and is stored in
\* the caller's (hash, height); on an empty queue nothing happens, and the
\* caller's pair keeps the value it had.
pop(hs, item) ==
    IF hs = <<>>
    THEN [hashes |-> hs, item |-> item]
    ELSE [hashes |-> Tail(hs), item |-> Head(hs)]

\* row->insert(hash, height): the pair is appended to the row's queue.
insert(q, r, item) == [q EXCEPT ![r] = Append(@, item)]

\* The values an uninitialized (hash, height) pair may hold: any pending item,
\* or 0 for a pair that is no pending item.
Uninitialized == 0..Len(original)

\* donor->partition(minimal), moving the first n items of donor's queue to
\* the end of minimal's.
row_partition(q, donor, minimal, n) ==
    [q EXCEPT ![donor] = SubSeq(@, n + 1, Len(@)),
              ![minimal] = @ \o SubSeq(q[donor], 1, n)]

\* The portions a row may give: something whenever it holds anything.
row_portions(q, donor) ==
    IF q[donor] = <<>> THEN {0} ELSE 1..Len(q[donor])

----------------------------------------------------------------------------
\* initialize

\* const size_t max_rows = max_size_t / max_block_request;
max_rows == max_size_t \div max_block_request

\* A faulty variant: the row count is not clamped to the number of blocks.
initialize_rows_unclamped(sz, blocks) == Min(max_rows, sz)

\* rows = std::min(std::min(max_rows, size), blocks)
initialize_rows(sz, blocks) == Min(Min(max_rows, sz), blocks)

\* A faulty variant: the allocation is not capped at max_block_request a row.
initialize_allocation_uncapped(rows, blocks) == blocks

\* A faulty variant: the allocation is not limited to the blocks there are.
initialize_allocation_ignoring_blocks(rows, blocks) == SizeT(rows * max_block_request)

\* allocation = std::min(blocks, rows * max_block_request)
initialize_allocation(rows, blocks) == Min(blocks, SizeT(rows * max_block_request))

\* A faulty variant: the pop is hoisted out of the inner loop, so that one
\* item is inserted into every row of a round.
RECURSIVE initialize_loop_hoisted(_, _, _, _, _, _, _, _)
initialize_loop_hoisted(hs, q, tbl, rows, rounds, base, r, item) ==
    IF base >= rounds THEN [hashes |-> hs, queue |-> q]
    ELSE IF r >= rows
         THEN initialize_loop_hoisted(hs, q, tbl, rows, rounds, base + 1, 0, item)
    ELSE LET s == IF r = 0 THEN pop(hs, item) ELSE [hashes |-> hs, item |-> item]
         IN  initialize_loop_hoisted(s.hashes, insert(q, tbl[r + 1], s.item), tbl, rows,
                                     rounds, base, r + 1, s.item)

\* A faulty variant: the loops are exchanged, each row taking its whole share
\* before the next row takes any.
RECURSIVE initialize_loop_by_row(_, _, _, _, _, _, _, _)
initialize_loop_by_row(hs, q, tbl, rows, rounds, base, r, item) ==
    IF r >= rows THEN [hashes |-> hs, queue |-> q]
    ELSE IF base >= rounds
         THEN initialize_loop_by_row(hs, q, tbl, rows, rounds, 0, r + 1, item)
    ELSE LET s == pop(hs, item)
         IN  initialize_loop_by_row(s.hashes, insert(q, tbl[r + 1], s.item), tbl, rows,
                                    rounds, base + 1, r, s.item)

\* The two loops of initialize, from (base, r) on: `rounds` rounds, each
\* popping one item per row in table order.
RECURSIVE initialize_loop(_, _, _, _, _, _, _, _)
initialize_loop(hs, q, tbl, rows, rounds, base, r, item) ==
    IF base >= rounds THEN [hashes |-> hs, queue |-> q]
    ELSE IF r >= rows THEN initialize_loop(hs, q, tbl, rows, rounds, base + 1, 0, item)
    ELSE LET s == pop(hs, item)
         IN  initialize_loop(s.hashes, insert(q, tbl[r + 1], s.item), tbl, rows,
                             rounds, base, r + 1, s.item)

\* A faulty variant: every row is made with slot 0.
initialize_table_one_slot(tbl, rows) == tbl \o [i \in 1..rows |-> 0]

\* for (auto row = 0; row < rows; ++row)
\*     table_.push_back(std::make_shared<reservation>(self, row));
initialize_table(tbl, rows) == tbl \o [i \in 1..rows |-> i - 1]

Initialize_lock_upgrade ==
    /\ init.pc = "start"
    /\ can_lock_upgrade(mutex_)
    /\ mutex_' = lock_upgrade(mutex_)
    /\ LET blocks == hashes_size(hashes_)
           rows == initialize_rows(init.size, blocks)
       IN  init' = IF rows = 0
                   THEN [init EXCEPT !.pc = "empty", !.blocks = blocks, !.rows = 0]
                   ELSE [init EXCEPT !.pc = "sized", !.blocks = blocks, !.rows = rows,
                                     !.allocation = initialize_allocation(rows, blocks)]
    /\ UNCHANGED <<hashes_, table_, queue, pc, row, populate_locals, it, copy, original,
                   idle, statistics, calls>>

Initialize_unlock_upgrade ==
    /\ init.pc = "empty"
    /\ mutex_' = unlock_upgrade(mutex_)
    /\ init' = [init EXCEPT !.pc = "done"]
    /\ UNCHANGED <<hashes_, table_, queue, pc, row, populate_locals, it, copy, original,
                   idle, statistics, calls>>

Initialize_unlock_upgrade_and_lock ==
    /\ init.pc = "sized"
    /\ can_unlock_upgrade_and_lock(mutex_)
    /\ mutex_' = unlock_upgrade_and_lock(mutex_)
    /\ init' = [init EXCEPT !.pc = "locked"]
    /\ UNCHANGED <<hashes_, table_, queue, pc, row, populate_locals, it, copy, original,
                   idle, statistics, calls>>

Initialize_distribute ==
    /\ init.pc = "locked"
    /\ \E uninitialized \in Uninitialized :
          LET rows == init.rows
              made == [s \in 0..(rows - 1) |-> <<>>]
              tbl == initialize_table(table_, rows)
              out == initialize_loop(hashes_, made, tbl, rows,
                                     init.allocation \div rows, 0, 0, uninitialized)
          IN  /\ table_' = tbl
              /\ hashes_' = out.hashes
              /\ queue' = out.queue
              /\ idle' = [s \in 0..(rows - 1) |-> TRUE]
    /\ init' = [init EXCEPT !.pc = "distributed"]
    /\ UNCHANGED <<mutex_, pc, row, populate_locals, it, copy, original, statistics, calls>>

Initialize_unlock ==
    /\ init.pc = "distributed"
    /\ mutex_' = unlock(mutex_)
    /\ init' = [init EXCEPT !.pc = "done"]
    /\ UNCHANGED <<hashes_, table_, queue, pc, row, populate_locals, it, copy, original,
                   idle, statistics, calls>>

----------------------------------------------------------------------------
\* populate

\* A faulty variant: the item popped stays at the front of the hash queue.
RECURSIVE reserve_loop_copying(_, _, _, _, _, _)
reserve_loop_copying(hs, q, minimal, allocation, block, item) ==
    IF block >= allocation THEN [hashes |-> hs, queue |-> q]
    ELSE LET s == pop(hs, item)
         IN  reserve_loop_copying(hs, insert(q, minimal, s.item), minimal,
                                  allocation, block + 1, s.item)

\* The loop of reserve, from `block` on.
RECURSIVE reserve_loop(_, _, _, _, _, _)
reserve_loop(hs, q, minimal, allocation, block, item) ==
    IF block >= allocation THEN [hashes |-> hs, queue |-> q]
    ELSE LET s == pop(hs, item)
         IN  reserve_loop(s.hashes, insert(q, minimal, s.item), minimal,
                          allocation, block + 1, s.item)

\* A faulty variant: the row's existing items are not counted against the cap.
reserve_allocation_ignoring_existing(sz, ex) == Min(sz, max_block_request)

\* A faulty variant: the allocation is not limited to the queue's size.
reserve_allocation_ignoring_size(sz, ex) == SizeT(max_block_request - ex)

\* A faulty variant: everything the hash queue holds is allocated to the row.
reserve_allocation_uncapped(sz, ex) == sz

\* allocation = std::min(size, max_block_request - existing)
reserve_allocation(sz, ex) == Min(sz, SizeT(max_block_request - ex))

\* A faulty variant: the negation is dropped.
reserve_result_negated(q, minimal) == q[minimal] = <<>>

\* A faulty variant: only a full row counts as reserved.
reserve_result_when_full(q, minimal) == Len(q[minimal]) >= max_block_request

\* return !minimal->empty();
reserve_result(q, minimal) == q[minimal] # <<>>

\* reserve(minimal): top the row up from the hash queue, to max_block_request
\* at most; true when the row holds something afterwards.
reserve(hs, q, minimal, uninitialized) ==
    LET sz == hashes_size(hs)
        ex == Len(q[minimal])
        out == reserve_loop(hs, q, minimal, reserve_allocation(sz, ex), 0, uninitialized)
    IN  [hashes |-> out.hashes, queue |-> out.queue, size |-> sz, existing |-> ex,
         reserved |-> reserve_result(out.queue, minimal)]

\* A faulty variant: of the largest rows the last is taken.
RECURSIVE max_element_last(_, _, _, _)
max_element_last(tbl, q, largest, i) ==
    IF i > Len(tbl) THEN largest
    ELSE max_element_last(tbl, q,
            IF Len(q[tbl[largest]]) <= Len(q[tbl[i]]) THEN i ELSE largest, i + 1)

\* std::max_element over table_ from position i on, comparing rows by size:
\* the position of the first of the largest rows.
RECURSIVE max_element(_, _, _, _)
max_element(tbl, q, largest, i) ==
    IF i > Len(tbl) THEN largest
    ELSE max_element(tbl, q,
            IF Len(q[tbl[largest]]) < Len(q[tbl[i]]) THEN i ELSE largest, i + 1)

find_maximal(tbl, q) ==
    IF tbl = <<>> THEN NULL ELSE tbl[max_element(tbl, q, 1, 2)]

\* A faulty variant: the maximal row is asked even when it is minimal itself.
partition_maximal_no_self_check(tbl, q, minimal) == find_maximal(tbl, q)

\* partition(minimal): the row that is asked to give work to minimal, or
\* NULL when none is asked.
partition_maximal(tbl, q, minimal) ==
    LET donor == find_maximal(tbl, q)
    IN  IF donor # NULL /\ donor # minimal THEN donor ELSE NULL

\* A faulty variant: the lock is taken without waiting for the readers.
populate_can_lock_ignoring_readers(m) == ~m.upgrade /\ ~m.exclusive

\* mutex_.lock() of populate.
populate_can_lock(m) == can_lock(m)

Populate_lock(t, r) ==
    /\ init.pc = "done"
    /\ pc[t] = "idle"
    /\ may_call(calls, "populate")
    /\ populate_can_lock(mutex_)
    /\ mutex_' = lock(mutex_)
    /\ pc' = [pc EXCEPT ![t] = "reserve"]
    /\ row' = [row EXCEPT ![t] = r]
    /\ calls' = called(calls, "populate")
    /\ UNCHANGED <<hashes_, table_, queue, init, populate_locals, it, copy, original, idle,
                   statistics>>

Populate_reserve(t) ==
    /\ pc[t] = "reserve"
    /\ \E uninitialized \in Uninitialized :
          LET out == reserve(hashes_, queue, row[t], uninitialized)
          IN  /\ hashes_' = out.hashes
              /\ queue' = out.queue
              /\ reserved' = [reserved EXCEPT ![t] = out.reserved]
              /\ size' = [size EXCEPT ![t] = out.size]
              /\ existing' = [existing EXCEPT ![t] = out.existing]
    /\ pc' = [pc EXCEPT ![t] = "partition"]
    /\ UNCHANGED <<table_, mutex_, init, row, maximal, it, copy, original, idle, statistics, calls>>

Populate_partition(t) ==
    /\ pc[t] = "partition"
    /\ LET donor == IF reserved[t] THEN NULL
                    ELSE partition_maximal(table_, queue, row[t])
       IN  /\ maximal' = [maximal EXCEPT ![t] = donor]
           /\ IF donor = NULL
              THEN queue' = queue
              ELSE \E n \in row_portions(queue, donor) :
                      queue' = row_partition(queue, donor, row[t], n)
    /\ pc' = [pc EXCEPT ![t] = "unlock"]
    /\ UNCHANGED <<hashes_, table_, mutex_, init, row, reserved, size, existing, it, copy,
                   original, idle, statistics, calls>>

Populate_unlock(t) ==
    /\ pc[t] = "unlock"
    /\ mutex_' = unlock(mutex_)
    /\ pc' = [pc EXCEPT ![t] = "idle"]
    /\ row' = [row EXCEPT ![t] = NULL]
    /\ reserved' = [reserved EXCEPT ![t] = FALSE]
    /\ size' = [size EXCEPT ![t] = 0]
    /\ existing' = [existing EXCEPT ![t] = 0]
    /\ maximal' = [maximal EXCEPT ![t] = NULL]
    /\ UNCHANGED <<hashes_, table_, queue, init, it, copy, original, idle, statistics, calls>>

----------------------------------------------------------------------------
\* remove

\* A faulty variant: a row that is not found yields the last position.
find_last(tbl, r) ==
    IF \E i \in 1..Len(tbl) : tbl[i] = r
    THEN CHOOSE i \in 1..Len(tbl) : tbl[i] = r /\ \A j \in 1..(i - 1) : tbl[j] # r
    ELSE Len(tbl)

\* std::find(table_.begin(), table_.end(), row): the first position holding
\* the row, or the end position.
find(tbl, r) ==
    IF \E i \in 1..Len(tbl) : tbl[i] = r
    THEN CHOOSE i \in 1..Len(tbl) : tbl[i] = r /\ \A j \in 1..(i - 1) : tbl[j] # r
    ELSE Len(tbl) + 1

\* A faulty variant: the last row is moved to the erased position.
erase_unordered(tbl, i) ==
    SubSeq([tbl EXCEPT ![i] = tbl[Len(tbl)]], 1, Len(tbl) - 1)

\* table_.erase(it)
erase(tbl, i) == SubSeq(tbl, 1, i - 1) \o SubSeq(tbl, i + 1, Len(tbl))

Remove_lock_upgrade(t, r) ==
    /\ init.pc = "done"
    /\ pc[t] = "idle"
    /\ may_call(calls, "remove")
    /\ can_lock_upgrade(mutex_)
    /\ mutex_' = lock_upgrade(mutex_)
    /\ pc' = [pc EXCEPT ![t] = "find"]
    /\ row' = [row EXCEPT ![t] = r]
    /\ calls' = called(calls, "remove")
    /\ UNCHANGED <<hashes_, table_, queue, init, populate_locals, it, copy, original, idle,
                   statistics>>

Remove_find(t) ==
    /\ pc[t] = "find"
    /\ LET i == find(table_, row[t])
       IN  /\ it' = [it EXCEPT ![t] = i]
           /\ pc' = [pc EXCEPT ![t] = IF i = Len(table_) + 1 THEN "absent" ELSE "found"]
    /\ UNCHANGED <<hashes_, table_, queue, mutex_, init, row, populate_locals, copy, original,
                   idle, statistics, calls>>

Remove_unlock_upgrade(t) ==
    /\ pc[t] = "absent"
    /\ mutex_' = unlock_upgrade(mutex_)
    /\ pc' = [pc EXCEPT ![t] = "idle"]
    /\ row' = [row EXCEPT ![t] = NULL]
    /\ it' = [it EXCEPT ![t] = 0]
    /\ UNCHANGED <<hashes_, table_, queue, init, populate_locals, copy, original,
                   idle, statistics, calls>>

Remove_unlock_upgrade_and_lock(t) ==
    /\ pc[t] = "found"
    /\ can_unlock_upgrade_and_lock(mutex_)
    /\ mutex_' = unlock_upgrade_and_lock(mutex_)
    /\ pc' = [pc EXCEPT ![t] = "erase"]
    /\ UNCHANGED <<hashes_, table_, queue, init, row, populate_locals, it, copy, original,
                   idle, statistics, calls>>

Remove_erase(t) ==
    /\ pc[t] = "erase"
    /\ table_' = erase(table_, it[t])
    /\ pc' = [pc EXCEPT ![t] = "erased"]
    /\ UNCHANGED <<hashes_, queue, mutex_, init, row, populate_locals, it, copy, original,
                   idle, statistics, calls>>

Remove_unlock(t) ==
    /\ pc[t] = "erased"
    /\ mutex_' = unlock(mutex_)
    /\ pc' = [pc EXCEPT ![t] = "idle"]
    /\ row' = [row EXCEPT ![t] = NULL]
    /\ it' = [it EXCEPT ![t] = 0]
    /\ UNCHANGED <<hashes_, table_, queue, init, populate_locals, copy, original,
                   idle, statistics, calls>>

----------------------------------------------------------------------------
\* rates, and the table() it calls

Table_lock_shared(t) ==
    /\ init.pc = "done"
    /\ pc[t] = "idle"
    /\ may_call(calls, "rates")
    /\ can_lock_shared(mutex_)
    /\ mutex_' = lock_shared(mutex_)
    /\ pc' = [pc EXCEPT ![t] = "copy"]
    /\ calls' = called(calls, "rates")
    /\ UNCHANGED <<hashes_, table_, queue, init, row, populate_locals, it, copy, original, idle,
                   statistics>>

Table_return(t) ==
    /\ pc[t] = "copy"
    /\ copy' = [copy EXCEPT ![t] = table_]
    /\ mutex_' = unlock_shared(mutex_)
    /\ pc' = [pc EXCEPT ![t] = "rates"]
    /\ UNCHANGED <<hashes_, table_, queue, init, row, populate_locals, it, original, idle,
                   statistics, calls>>

\* row->rate().normal(): a number of the row's own.
rate_normal(r) == r + 1

\* A faulty variant: no row is taken out.
remove_if_none(rows, flags) == rows

\* rows.erase(std::remove_if(rows.begin(), rows.end(), idle), rows.end())
remove_if_idle(rows, flags) == SelectSeq(rows, LAMBDA r : ~flags[r])

\* std::accumulate(rates.begin(), rates.end(), 0.0) over the normal rates of rows
RECURSIVE accumulate(_)
accumulate(rows) ==
    IF rows = <<>> THEN 0 ELSE rate_normal(Head(rows)) + accumulate(Tail(rows))

\* rates, from the erase of the idle rows to the sum of the rates.
Rates_remove_idle(t) ==
    /\ pc[t] = "rates"
    /\ LET rows == remove_if_idle(copy[t], idle)
       IN  /\ copy' = [copy EXCEPT ![t] = rows]
           /\ statistics' = [statistics EXCEPT
                                ![t] = [active_rows |-> Len(rows), values |-> accumulate(rows)]]
    /\ pc' = [pc EXCEPT ![t] = "active"]
    /\ UNCHANGED <<hashes_, table_, queue, mutex_, init, row, populate_locals, it, original,
                   idle, calls>>

Rates_return(t) ==
    /\ pc[t] = "active"
    /\ copy' = [copy EXCEPT ![t] = <<>>]
    /\ statistics' = [statistics EXCEPT ![t] = [active_rows |-> 0, values |-> 0]]
    /\ pc' = [pc EXCEPT ![t] = "idle"]
    /\ UNCHANGED <<hashes_, table_, queue, mutex_, init, row, populate_locals, it, original,
                   idle, calls>>

----------------------------------------------------------------------------
\* A row's owner finishes the front item of the row's queue (the block was
\* downloaded and imported); rows change outside the table's mutex.
Row_consume(r) ==
    /\ init.pc = "done"
    /\ queue[r] # <<>>
    /\ queue' = [queue EXCEPT ![r] = Tail(@)]
    /\ UNCHANGED <<hashes_, table_, mutex_, init, pc, row, populate_locals, it, copy, original,
                   idle, statistics, calls>>

\* A row's owner starts or stops its activity: the row stops or starts being
\* idle.
Row_idle(r) ==
    /\ init.pc = "done"
    /\ idle' = [idle EXCEPT ![r] = ~@]
    /\ UNCHANGED <<hashes_, table_, queue, mutex_, init, pc, row, populate_locals, it, copy,
                   original, statistics, calls>>

----------------------------------------------------------------------------
\* The constructor is about to call initialize(R) on a hash queue of P items.
Construct(P, R) ==
    /\ hashes_ = [i \in 1..P |-> i]
    /\ original = [i \in 1..P |-> i]
    /\ init = [pc |-> "start", size |-> R, blocks |-> 0, rows |-> 0, allocation |-> 0]
    /\ table_ = <<>>
    /\ queue = <<>>
    /\ mutex_ = [shared |-> 0, upgrade |-> FALSE, exclusive |-> FALSE]
    /\ pc = [t \in Threads |-> "idle"]
    /\ row = [t \in Threads |-> NULL]
    /\ reserved = [t \in Threads |-> FALSE]
    /\ size = [t \in Threads |-> 0]
    /\ existing = [t \in Threads |-> 0]
    /\ maximal = [t \in Threads |-> NULL]
    /\ it = [t \in Threads |-> 0]
    /\ copy = [t \in Threads |-> <<>>]
    /\ idle = <<>>
    /\ statistics = [t \in Threads |-> [active_rows |-> 0, values |-> 0]]

Init ==
    /\ \E P \in 0..MaxBlocks, R \in 0..MaxConnections : Construct(P, R)
    /\ calls = Unlimited

InitInitialize ==
    /\ \E P \in 0..MaxPending, R \in 0..MaxSize : Construct(P, R)
    /\ calls = Unlimited

Initialize ==
    \/ Initialize_lock_upgrade
    \/ Initialize_unlock_upgrade
    \/ Initialize_unlock_upgrade_and_lock
    \/ Initialize_distribute
    \/ Initialize_unlock

Next ==
    \/ Initialize
    \/ \E t \in Threads, r \in DOMAIN queue : Populate_lock(t, r)
    \/ \E t \in Threads : Populate_reserve(t)
    \/ \E t \in Threads : Populate_partition(t)
    \/ \E t \in Threads : Populate_unlock(t)
    \/ \E t \in Threads, r \in DOMAIN queue : Remove_lock_upgrade(t, r)
    \/ \E t \in Threads : Remove_find(t)
    \/ \E t \in Threads : Remove_unlock_upgrade(t)
    \/ \E t \in Threads : Remove_unlock_upgrade_and_lock(t)
    \/ \E t \in Threads : Remove_erase(t)
    \/ \E t \in Threads : Remove_unlock(t)
    \/ \E t \in Threads : Table_lock_shared(t)
    \/ \E t \in Threads : Table_return(t)
    \/ \E t \in Threads : Rates_remove_idle(t)
    \/ \E t \in Threads : Rates_return(t)
    \/ \E r \in DOMAIN queue : Row_consume(r)

Spec == Init /\ [][Next]_vars

\* The constructor alone, over a wider range of queue lengths and sizes.
SpecInitialize == InitInitialize /\ [][Initialize]_vars

\* The constructor, then removes and rates by the threads while the rows'
\* owners start and stop their activity.
NextRates ==
    \/ Initialize
    \/ \E t \in Threads, r \in DOMAIN queue : Remove_lock_upgrade(t, r)
    \/ \E t \in Threads : Remove_find(t)
    \/ \E t \in Threads : Remove_unlock_upgrade(t)
    \/ \E t \in Threads : Remove_unlock_upgrade_and_lock(t)
    \/ \E t \in Threads : Remove_erase(t)
    \/ \E t \in Threads : Remove_unlock(t)
    \/ \E t \in Threads : Table_lock_shared(t)
    \/ \E t \in Threads : Table_return(t)
    \/ \E t \in Threads : Rates_remove_idle(t)
    \/ \E t \in Threads : Rates_return(t)
    \/ \E r \in DOMAIN idle : Row_idle(r)

SpecRates == Init /\ [][NextRates]_vars

\* The slots in S, in ascending order.
RECURSIVE Ascending(_)
Ascending(S) ==
    IF S = {} THEN <<>>
    ELSE LET least == CHOOSE x \in S : \A y \in S : x <= y
         IN  <<least>> \o Ascending(S \ {least})

\* The table some time after the constructor: initialize(n) has given each of
\* n rows max_block_request items of a queue that held h more, the rows'
\* owners have finished items so that row s still holds the last left[s] of
\* its own, the rows not in S were removed, and one call of operation op is
\* about to be made.
Constructed(n, h, left, S, op) ==
    LET P == n * max_block_request + h
        first == [i \in 1..P |-> i]
        tbl == initialize_table(<<>>, n)
        out == initialize_loop(first, [s \in 0..(n - 1) |-> <<>>], tbl, n,
                               max_block_request, 0, 0, 0)
    IN  /\ original = first
        /\ hashes_ = out.hashes
        /\ queue = [s \in 0..(n - 1) |->
                      SubSeq(out.queue[s], max_block_request - left[s] + 1, max_block_request)]
        /\ table_ = Ascending(S)
        /\ idle = [s \in 0..(n - 1) |-> TRUE]
        /\ init = [pc |-> "done", size |-> n, blocks |-> P, rows |-> n,
                   allocation |-> initialize_allocation(n, P)]
        /\ mutex_ = [shared |-> 0, upgrade |-> FALSE, exclusive |-> FALSE]
        /\ pc = [t \in Threads |-> "idle"]
        /\ row = [t \in Threads |-> NULL]
        /\ reserved = [t \in Threads |-> FALSE]
        /\ size = [t \in Threads |-> 0]
        /\ existing = [t \in Threads |-> 0]
        /\ maximal = [t \in Threads |-> NULL]
        /\ it = [t \in Threads |-> 0]
        /\ copy = [t \in Threads |-> <<>>]
        /\ statistics = [t \in Threads |-> [active_rows |-> 0, values |-> 0]]
        /\ calls = [o \in Operations |-> IF o = op THEN 1 ELSE 0]

InitSequential ==
    \E n \in 0..Min(MaxRows, max_rows), h \in {0, MaxBlocks}, op \in {"populate", "remove"} :
        \E left \in [0..(n - 1) -> 0..max_block_request], S \in SUBSET (0..(n - 1)) :
            Constructed(n, h, left, S, op)

\* One thread making its call of populate or remove.
NextSequential ==
    \/ \E r \in DOMAIN queue : Populate_lock(1, r)
    \/ Populate_reserve(1)
    \/ Populate_partition(1)
    \/ Populate_unlock(1)
    \/ \E r \in DOMAIN queue : Remove_lock_upgrade(1, r)
    \/ Remove_find(1)
    \/ Remove_unlock_upgrade(1)
    \/ Remove_unlock_upgrade_and_lock(1)
    \/ Remove_erase(1)
    \/ Remove_unlock(1)

\* populate and remove as functions of the table's state: one call, over the
\* tables of up to MaxRows rows.
SpecSequential == InitSequential /\ [][NextSequential]_vars

\* A finite set of calls is to be made, by whichever thread is free; populate
\* and remove take a row, so they are called only where the constructor makes
\* one.
InitFinite ==
    \E P \in 0..MaxBlocks :
        /\ Construct(P, MaxConnections)
        /\ calls \in [Operations -> 0..MaxCalls]
        /\ P = 0 => (calls["populate"] = 0 /\ calls["remove"] = 0)

\* The steps of thread t.
Thread(t) ==
    \/ \E r \in DOMAIN queue : Populate_lock(t, r)
    \/ Populate_reserve(t)
    \/ Populate_partition(t)
    \/ Populate_unlock(t)
    \/ \E r \in DOMAIN queue : Remove_lock_upgrade(t, r)
    \/ Remove_find(t)
    \/ Remove_unlock_upgrade(t)
    \/ Remove_unlock_upgrade_and_lock(t)
    \/ Remove_erase(t)
    \/ Remove_unlock(t)
    \/ Table_lock_shared(t)
    \/ Table_return(t)
    \/ Rates_remove_idle(t)
    \/ Rates_return(t)

\* The calls alone: the constructor's and the threads'.
Calls == Initialize \/ \E t \in Threads : Thread(t)

\* A finite set of calls, every thread and the constructor being scheduled
\* again and again while it can take a step.
SpecFinite ==
    /\ InitFinite
    /\ [][Calls]_vars
    /\ WF_vars(Initialize)
    /\ \A t \in Threads : WF_vars(Thread(t))
----------------------------------------------------------------------------
\* Properties.

Range(seq) == {seq[i] : i \in 1..Len(seq)}

\* The places (NULL for the hash queue, or a row's slot, with a position)
\* holding item x.
Places(x) ==
    {<<NULL, k>> : k \in {j \in 1..Len(hashes_) : hashes_[j] = x}}
      \cup UNION {{<<s, k>> : k \in {j \in 1..Len(queue[s]) : queue[s][j] = x}} :
                    s \in DOMAIN queue}

\* Thread t's populate runs reserve in this step; runs the partition decision.
PopulateReserves(t) == pc[t] = "reserve" /\ pc'[t] = "partition"

PopulatePartitions(t) == pc[t] = "partition" /\ pc'[t] = "unlock"

\* C1: after initialize(R) on P pending items the table holds exactly
\* min(R, P, max_size_t div max_block_request) rows; with P = 0 or R = 0 no
\* row is made and the hash queue is untouched.
C1_RowCount ==
    init.pc = "done" =>
        /\ Len(table_) = Min(Min(init.size, Len(original)), max_size_t \div max_block_request)
        /\ DOMAIN queue = Range(table_)
        /\ (init.size = 0 \/ original = <<>>) => (table_ = <<>> /\ hashes_ = original)

\* initialize has returned, and the clamp to max_size_t div max_block_request decided the count.
C1_Witness ==
    /\ init.pc = "done"
    /\ init.size > max_size_t \div max_block_request
    /\ Len(original) > max_size_t \div max_block_request
    /\ Len(table_) = max_size_t \div max_block_request

\* C2: when initialize made rows > 0 rows, every row holds exactly
\* allocation div rows items (at least one), allocation being
\* min(P, rows * max_block_request), and the hash queue keeps the other
\* P - (allocation div rows) * rows.
C2_EqualAllocation ==
    (init.pc = "done" /\ table_ # <<>>) =>
        LET rows == Len(table_)
            allocation == Min(Len(original), rows * max_block_request)
            each == allocation \div rows
        IN  /\ each >= 1
            /\ \A i \in 1..rows : Len(queue[table_[i]]) = each
            /\ Len(hashes_) = Len(original) - each * rows

\* initialize has returned with several rows, the cap of max_block_request a
\* row decided the allocation, and items were left in the hash queue.
C2_Witness ==
    /\ init.pc = "done"
    /\ Len(table_) >= 2
    /\ Len(original) > Len(table_) * max_block_request
    /\ hashes_ # <<>>

\* C3: after initialize every item of the original queue is in exactly one
\* place, a row or the hash queue, and nothing else is in any of them.
C3_NoDuplication ==
    init.pc \in {"distributed", "done"} =>
        /\ \A x \in Range(original) : Cardinality(Places(x)) = 1
        /\ Range(hashes_) \subseteq Range(original)
        /\ \A s \in DOMAIN queue : Range(queue[s]) \subseteq Range(original)

\* initialize has returned with several rows, and the remainder of the
\* division was left in the hash queue.
C3_Witness ==
    /\ init.pc = "done"
    /\ Len(table_) >= 2
    /\ queue[table_[1]] # <<>>
    /\ hashes_ # <<>>
    /\ Len(original) < Len(table_) * max_block_request

\* The other row of a table of two.
Other(r) == CHOOSE o \in Range(table_) : o # r

\* Thread t's populate is past a reserve that found the hash queue empty, in a
\* table of two rows where its row holds fewer items than the other (and no
\* item of its row was finished meanwhile), and now decides about partition.
FallbackCase(t) ==
    /\ PopulatePartitions(t)
    /\ size[t] = 0
    /\ hashes_ = <<>>
    /\ Len(table_) = 2
    /\ row[t] \in Range(table_)
    /\ Len(queue[row[t]]) = existing[t]
    /\ Len(queue[row[t]]) < Len(queue[Other(row[t])])

\* Items moved from the other row to t's row in this step.
Moved(t) ==
    LET r == row[t]
        o == Other(r)
    IN  /\ Len(queue'[r]) > Len(queue[r])
        /\ Len(queue[o]) - Len(queue'[o]) = Len(queue'[r]) - Len(queue[r])
        /\ Len(queue'[r]) + Len(queue'[o]) = Len(queue[r]) + Len(queue[o])

\* C4 as stated: with an empty hash queue and two rows, populate on the row
\* holding fewer items moves items into it from the larger row.
C4_PopulateFallback == [][\A t \in Threads : FallbackCase(t) => Moved(t)]_vars

\* C4 amended: with an empty hash queue and two rows, populate on the row
\* holding fewer items asks the larger row to partition into it only when it
\* holds none, and then what leaves the larger row arrives in the smaller;
\* when it holds at least one item, no row is asked and no queue changes.
C4_FallbackOnlyWhenEmpty ==
    [][\A t \in Threads :
          FallbackCase(t) =>
             IF existing[t] = 0
             THEN LET r == row[t]
                      o == Other(r)
                  IN  /\ maximal'[t] = o
                      /\ Len(queue'[r]) >= Len(queue[r])
                      /\ queue'[r] \o queue'[o] = queue[r] \o queue[o]
                      /\ hashes_' = hashes_
             ELSE /\ maximal'[t] = NULL
                  /\ queue' = queue
                  /\ hashes_' = hashes_
                  /\ table_' = table_]_vars

\* A populate on the smaller, non-empty row of two has run with the hash queue
\* empty and asked no row for work.
C4_Witness ==
    \E t \in Threads :
        /\ pc[t] = "unlock"
        /\ size[t] = 0
        /\ existing[t] >= 1
        /\ Len(table_) = 2
        /\ row[t] \in Range(table_)
        /\ Len(queue[row[t]]) = existing[t]
        /\ Len(queue[row[t]]) < Len(queue[Other(row[t])])
        /\ maximal[t] = NULL

\* C5: reserve moves exactly min(queue size, max_block_request - row size)
\* items from the front of the hash queue to the end of the row, changes no
\* other row, and reports whether the row holds anything afterwards.
C5_TopUp ==
    [][\A t \in Threads :
          PopulateReserves(t) =>
             LET r == row[t]
                 n == Min(Len(hashes_), max_block_request - Len(queue[r]))
             IN  /\ Len(queue'[r]) = Len(queue[r]) + n
                 /\ Len(hashes_') = Len(hashes_) - n
                 /\ queue'[r] \o hashes_' = queue[r] \o hashes_
                 /\ \A s \in DOMAIN queue \ {r} : queue'[s] = queue[s]
                 /\ reserved'[t] = (queue'[r] # <<>>)]_vars

\* A reserve has moved items from the hash queue onto a row that held
\* something, filling it up to max_block_request.
C5_Witness ==
    \E t \in Threads :
        /\ pc[t] = "partition"
        /\ reserved[t]
        /\ existing[t] >= 1
        /\ existing[t] < max_block_request
        /\ size[t] >= max_block_request - existing[t]
        /\ Len(queue[row[t]]) = max_block_request
        /\ Len(hashes_) = size[t] - (max_block_request - existing[t])

\* C6: populate changes the queue of a row other than its own only when,
\* under its lock, its row and the hash queue are both empty; when reserve
\* found the queue non-empty or the row holding items, no other row changes.
C6_StealOnlyWhenExhausted ==
    [][\A t \in Threads :
          /\ PopulateReserves(t) =>
                /\ \A s \in DOMAIN queue \ {row[t]} : queue'[s] = queue[s]
                /\ (hashes_ # <<>> \/ queue[row[t]] # <<>>) => reserved'[t]
          /\ PopulatePartitions(t) =>
                /\ (\E s \in DOMAIN queue \ {row[t]} : queue'[s] # queue[s])
                      => (queue[row[t]] = <<>> /\ hashes_ = <<>>)
                /\ (size[t] > 0 \/ existing[t] > 0) => queue' = queue]_vars

\* A populate on an empty row with the hash queue empty has taken items from
\* another row.
C6_Witness ==
    \E t \in Threads :
        /\ pc[t] = "unlock"
        /\ ~reserved[t]
        /\ size[t] = 0
        /\ existing[t] = 0
        /\ maximal[t] # NULL
        /\ queue[row[t]] # <<>>

\* Row r is the first of the largest rows of the table.
FirstMaximal(r) ==
    \E i \in 1..Len(table_) :
        /\ table_[i] = r
        /\ \A j \in 1..Len(table_) : Len(queue[table_[j]]) <= Len(queue[r])
        /\ \A j \in 1..(i - 1) : Len(queue[table_[j]]) < Len(queue[r])

\* C7: partition(row) changes no queue when the table is empty or the maximal
\* row is row itself, and never asks a row to partition into itself.
C7_NoSelfPartition ==
    [][\A t \in Threads :
          PopulatePartitions(t) =>
             /\ maximal'[t] # row[t]
             /\ (~reserved[t] /\ (table_ = <<>> \/ FirstMaximal(row[t]))) =>
                   /\ maximal'[t] = NULL
                   /\ queue' = queue
                   /\ hashes_' = hashes_
                   /\ table_' = table_]_vars

\* partition has run for a row that is itself the first of the largest rows
\* of a table of several rows, and asked no row.
C7_Witness ==
    \E t \in Threads :
        /\ pc[t] = "unlock"
        /\ ~reserved[t]
        /\ Len(table_) >= 2
        /\ FirstMaximal(row[t])
        /\ maximal[t] = NULL

\* The hash queue, row r and every row of the table are empty.
Exhausted(r) ==
    /\ hashes_ = <<>>
    /\ queue[r] = <<>>
    /\ \A i \in 1..Len(table_) : queue[table_[i]] = <<>>

\* C8: with the hash queue empty and every row of the table empty, populate
\* on an empty row changes no queue, nor the hash queue, nor the table, and
\* goes on to its unlock.
C8_NothingLeft ==
    [][\A t \in Threads :
          ((PopulateReserves(t) \/ PopulatePartitions(t)) /\ Exhausted(row[t])) =>
             /\ queue' = queue
             /\ hashes_' = hashes_
             /\ table_' = table_]_vars

\* A populate has run to its unlock with everything empty, having asked
\* another (empty) row of the table for work.
C8_Witness ==
    \E t \in Threads :
        /\ pc[t] = "unlock"
        /\ ~reserved[t]
        /\ Exhausted(row[t])
        /\ maximal[t] # NULL
        /\ maximal[t] # row[t]

\* Thread t's remove takes a step.
RemoveSteps(t) ==
    /\ pc[t] \in {"find", "absent", "found", "erase", "erased"}
    /\ pc'[t] # pc[t]

\* C9: remove(row) on a row that is not in the table changes nothing: not
\* the table, nor any queue, nor the hash queue; so a second remove of a row
\* leaves the table as the first left it.
C9_RemoveAbsent ==
    [][\A t \in Threads :
          (RemoveSteps(t) /\ row[t] \notin Range(table_)) =>
             /\ table_' = table_
             /\ queue' = queue
             /\ hashes_' = hashes_
             /\ pc'[t] \in {"absent", "idle"}]_vars

\* A remove has searched a table that still holds rows for a row that was
\* removed before, and found nothing.
C9_Witness ==
    \E t \in Threads :
        /\ pc[t] = "absent"
        /\ row[t] \in DOMAIN queue
        /\ row[t] \notin Range(table_)
        /\ table_ # <<>>

\* Thread t is inside populate's critical section; thread u holds the mutex
\* in some mode.
InPopulate(t) == pc[t] \in {"reserve", "partition", "unlock"}

HoldsMutex(u) ==
    pc[u] \in {"reserve", "partition", "unlock", "find", "absent", "found", "erase",
               "erased", "copy"}

\* C10: while a populate is between taking and releasing its lock, no other
\* thread holds the mutex in any mode, and no step of another thread changes
\* the table or the hash queue, adds to a row, or enters or acts inside a
\* populate, a remove or a table() (the only step another thread takes is
\* the rest of a rates whose copy was taken before).
C10_PopulateExclusive ==
    /\ [](\A t \in Threads : InPopulate(t) => \A u \in Threads \ {t} : ~HoldsMutex(u))
    /\ [][\A t \in Threads :
             (InPopulate(t) /\ pc'[t] = pc[t]) =>
                /\ table_' = table_
                /\ hashes_' = hashes_
                /\ \A s \in DOMAIN queue : Len(queue'[s]) <= Len(queue[s])
                /\ \A u \in Threads \ {t} :
                      pc'[u] # pc[u] => pc[u] \in {"rates", "active"}]_vars

\* A populate is between its reserve and its steal from a row that holds
\* work, while another thread's populate on another row cannot take the lock.
C10_Witness ==
    \E t \in Threads, u \in Threads :
        /\ t # u
        /\ pc[t] = "partition"
        /\ ~reserved[t]
        /\ partition_maximal(table_, queue, row[t]) # NULL
        /\ queue[partition_maximal(table_, queue, row[t])] # <<>>
        /\ pc[u] = "idle"
        /\ \E r \in DOMAIN queue \ {row[t]} : ~ENABLED Populate_lock(u, r)

\* The mutex is held in exactly the modes the calls in progress have taken
\* and not yet released.
LockAccounting ==
    /\ mutex_.shared = Cardinality({t \in Threads : pc[t] = "copy"})
    /\ mutex_.upgrade = (\/ init.pc \in {"empty", "sized"}
                         \/ \E t \in Threads : pc[t] \in {"find", "absent", "found"})
    /\ mutex_.exclusive = (\/ init.pc \in {"locked", "distributed"}
                           \/ \E t \in Threads :
                                 pc[t] \in {"reserve", "partition", "unlock", "erase", "erased"})

\* The constructor and every call of every thread has returned.
AllReturned ==
    /\ init.pc = "done"
    /\ \A t \in Threads : pc[t] = "idle"
    /\ \A op \in Operations : calls[op] = 0

\* C11: with finitely many calls and fair scheduling, every path releases
\* the mode of the mutex it took (the early returns of initialize and remove
\* included), and in the end the constructor and every call has returned,
\* none waiting for the mutex.
C11_AllReturn == []LockAccounting /\ <>[]AllReturned

\* Every call has returned, two removes among them having emptied a table of
\* two rows, and the mutex is free.
C11_Witness ==
    /\ AllReturned
    /\ init.rows >= 2
    /\ table_ = <<>>
    /\ can_lock(mutex_)

\* Thread t is inside remove.
InRemove(t) == pc[t] \in {"find", "absent", "found", "erase", "erased"}

\* C12: from the search of a remove to its erase the position found holds
\* the requested row and no other thread is inside remove; the table changes
\* only by the erase of a remove, which takes out the one requested row, and a
\* row that left the table never returns, so no row is erased twice.
C12_RemoveAtomic ==
    /\ [](\A t \in Threads :
             pc[t] \in {"found", "erase"} =>
                /\ it[t] \in 1..Len(table_)
                /\ table_[it[t]] = row[t]
                /\ \A u \in Threads \ {t} : ~InRemove(u))
    /\ [][(init.pc = "done" /\ table_' # table_) =>
             \E t \in Threads :
                /\ pc[t] = "erase"
                /\ pc'[t] = "erased"
                /\ row[t] \in Range(table_)
                /\ Len(table_') = Len(table_) - 1
                /\ Range(table_') = Range(table_) \ {row[t]}]_vars

\* A remove is about to erase the second row of the table while another
\* thread's remove of that row cannot take the upgrade ownership.
C12_Witness ==
    \E t \in Threads, u \in Threads :
        /\ t # u
        /\ pc[t] = "erase"
        /\ it[t] = 2
        /\ pc[u] = "idle"
        /\ ~ENABLED Remove_lock_upgrade(u, row[t])

\* C13: no row, in the table or removed from it, ever holds more than
\* max_block_request items, so max_block_request - existing in reserve never
\* wraps.
C13_RowCap ==
    \A s \in DOMAIN queue :
        /\ Len(queue[s]) <= max_block_request
        /\ SizeT(max_block_request - Len(queue[s])) = max_block_request - Len(queue[s])

\* A reserve has run on a row that was full while the hash queue held items,
\* and took none of them.
C13_Witness ==
    \E t \in Threads :
        /\ pc[t] = "partition"
        /\ existing[t] = max_block_request
        /\ size[t] > 0
        /\ Len(hashes_) = size[t]
        /\ Len(queue[row[t]]) = max_block_request

\* C14: the table never holds a row twice; rows are the slots 0..rows-1,
\* made in that order by initialize and by nothing else, and once initialize
\* has made them the table gains no row.
C14_UniqueRows ==
    /\ [](/\ \A i, j \in 1..Len(table_) : i # j => table_[i] # table_[j]
          /\ init.pc \in {"start", "empty", "sized", "locked"} => table_ = <<>>
          /\ init.pc = "distributed" => table_ = [i \in 1..init.rows |-> i - 1]
          /\ init.pc = "done" => Range(table_) \subseteq 0..(init.rows - 1))
    /\ [][init.pc \in {"distributed", "done"} =>
             /\ Range(table_') \subseteq Range(table_)
             /\ Len(table_') <= Len(table_)]_vars

\* Of the two rows initialize made, the first was removed and the second is
\* still in the table, under its own slot.
C14_Witness ==
    /\ init.pc = "done"
    /\ init.rows = 2
    /\ table_ = <<1>>
    /\ \A t \in Threads : pc[t] = "idle"

\* The rows of the list rows that are not idle.
Active(rows) == {rows[i] : i \in {j \in 1..Len(rows) : ~idle[rows[j]]}}

\* The sum of the normal rates of the rows in S.
RECURSIVE SumRates(_)
SumRates(S) ==
    IF S = {} THEN 0
    ELSE LET r == CHOOSE x \in S : TRUE IN rate_normal(r) + SumRates(S \ {r})

\* C15: table() copies the table while holding the mutex shared; until rates
\* reads the rows' idle flags no step of any thread changes that copy, and
\* then rates keeps in it, in order, the rows that are not idle: its
\* active_rows is their number and its sum of rates is theirs, whatever the
\* table holds by then.
C15_RatesSnapshot ==
    /\ [](\A t \in Threads : pc[t] = "copy" => (mutex_.shared >= 1 /\ ~mutex_.exclusive))
    /\ [][\A t \in Threads :
             /\ (pc[t] = "copy" /\ pc'[t] = "rates") => copy'[t] = table_
             /\ (pc[t] = "rates" /\ pc'[t] = "rates") => copy'[t] = copy[t]
             /\ (pc[t] = "rates" /\ pc'[t] = "active") =>
                    /\ Range(copy'[t]) = Active(copy[t])
                    /\ Len(copy'[t]) = Cardinality(Active(copy[t]))
                    /\ statistics'[t].active_rows = Cardinality(Active(copy[t]))
                    /\ statistics'[t].values = SumRates(Active(copy[t]))
                    /\ table_' = table_]_vars

\* rates has counted, as the one active row of its copy, a row that a remove
\* has taken from the table since, and not the idle row still in the table.
C15_Witness ==
    \E t \in Threads :
        /\ pc[t] = "active"
        /\ copy[t] = <<0>>
        /\ statistics[t].active_rows = 1
        /\ statistics[t].values = rate_normal(0)
        /\ table_ = <<1>>
        /\ idle[1]

\* C16: initialize hands out the front of the hash queue round-robin: with n
\* rows each getting `each` items, the row at position i of the table (slot
\* i - 1) holds, in order, the original items at positions i, i + n, i + 2n,
\* ..., and the hash queue keeps what follows the first each * n items.
C16_RoundRobin ==
    (init.pc \in {"distributed", "done"} /\ table_ # <<>>) =>
        LET n == Len(table_)
            each == Min(Len(original), n * max_block_request) \div n
        IN  /\ \A i \in 1..n :
                  /\ table_[i] = i - 1
                  /\ queue[i - 1] = [k \in 1..each |-> original[(k - 1) * n + i]]
            /\ hashes_ = SubSeq(original, each * n + 1, Len(original))

\* initialize has returned having gone twice round several rows: the first
\* row's second item is the one that followed the last row's first.
C16_Witness ==
    /\ init.pc = "done"
    /\ Len(table_) >= 2
    /\ Len(queue[0]) >= 2
    /\ queue[0][2] = original[Len(table_) + 1]
    /\ queue[Len(table_) - 1][1] = original[Len(table_)]

\* The position of row r in the table.
Position(r) == CHOOSE i \in 1..Len(table_) : table_[i] = r

\* C17: when populate asks a row for work, that row holds at least as many
\* items as every row of the table at that moment and is the first such row
\* in table order; and only that row gives items, to the populated row.
C17_DonorFirstMaximal ==
    [][\A t \in Threads :
          PopulatePartitions(t) =>
             /\ maximal'[t] # NULL =>
                    /\ maximal'[t] \in Range(table_)
                    /\ \A i \in 1..Len(table_) :
                          Len(queue[table_[i]]) <= Len(queue[maximal'[t]])
                    /\ \A i \in 1..(Position(maximal'[t]) - 1) :
                          Len(queue[table_[i]]) < Len(queue[maximal'[t]])
             /\ \A s \in DOMAIN queue \ {row[t], maximal'[t]} : queue'[s] = queue[s]]_vars

\* populate has moved items to its row from the first of two rows that held
\* equally many, the most of the table: the later one holds what the donor
\* and the populated row hold together.
C17_Witness ==
    \E t \in Threads, e \in Range(table_) :
        /\ pc[t] = "unlock"
        /\ maximal[t] # NULL
        /\ e \notin {maximal[t], row[t]}
        /\ Position(maximal[t]) < Position(e)
        /\ queue[row[t]] # <<>>
        /\ existing[t] = 0
        /\ Len(queue[e]) = Len(queue[maximal[t]]) + Len(queue[row[t]])

\* C18: remove(row) on a row of the table goes on to erase; its erase takes
\* out that one entry, the other rows keeping their order; and none of its
\* steps changes a queue (the removed row's own included) or the hash queue.
C18_RemoveFrame ==
    [][\A t \in Threads :
          (RemoveSteps(t) /\ row[t] \in Range(table_)) =>
             /\ queue' = queue
             /\ hashes_' = hashes_
             /\ pc[t] = "find" => pc'[t] = "found"
             /\ IF pc[t] = "erase"
                THEN /\ table_' = SelectSeq(table_, LAMBDA x : x # row[t])
                     /\ Len(table_') = Len(table_) - 1
                ELSE table_' = table_]_vars

\* remove has erased the middle row of a table of three, which keeps its
\* items while the hash queue holds others; the other two rows are in the
\* table in their order.
C18_Witness ==
    \E t \in Threads :
        /\ pc[t] = "erased"
        /\ row[t] = 1
        /\ table_ = <<0, 2>>
        /\ queue[1] # <<>>
        /\ hashes_ # <<>>

\* The number of places holding each item of the original queue.
Held == [x \in Range(original) |-> Cardinality(Places(x))]

\* The number of items held anywhere.
Total ==
    Len(hashes_) + Cardinality(UNION {{<<s, k>> : k \in 1..Len(queue[s])} : s \in DOMAIN queue})

\* C19: no item is ever in two places, the hash queue and the rows (those
\* removed from the table included) hold original items only, and until the
\* constructor has returned every item is in exactly one place; every step
\* of the constructor and of a thread's call (populate and remove among them)
\* leaves each item where it is or moves it, so that each item stays in as
\* many places and the total is constant: an item leaves only when the owner
\* of its row finishes it.
C19_ItemsConserved ==
    /\ [](/\ \A x \in Range(original) : Held[x] <= 1
          /\ Range(hashes_) \subseteq Range(original)
          /\ \A s \in DOMAIN queue : Range(queue[s]) \subseteq Range(original)
          /\ init.pc # "done" => \A x \in Range(original) : Held[x] = 1)
    /\ [][(pc' # pc \/ init' # init) => (Held' = Held /\ Total' = Total)]_vars

\* A populate on a row that was removed from the table has taken items from
\* a row of the table, which keeps others.
C19_Witness ==
    \E t \in Threads :
        /\ pc[t] = "unlock"
        /\ row[t] \notin Range(table_)
        /\ existing[t] = 0
        /\ queue[row[t]] # <<>>
        /\ maximal[t] # NULL
        /\ queue[maximal[t]] # <<>>

\* The number of items held by the rows.
RowItems == Total - Len(hashes_)

\* C20: from its read of the hash queue's size to its last pop, initialize
\* holds the mutex in upgrade and then exclusive mode and reserve holds it
\* exclusive, so that no other call pops or can take the mutex in a mode that
\* pops and the queue keeps the size read; each pops (and inserts) no more
\* items than the size it read, every pop finding an item; and the hash
\* queue changes in no other step.
C20_PopWithinSize ==
    /\ [](/\ init.pc = "sized" => mutex_.upgrade
          /\ init.pc = "locked" => mutex_.exclusive
          /\ init.pc \in {"sized", "locked"} =>
                /\ hashes_size(hashes_) = init.blocks
                /\ ~populate_can_lock(mutex_)
                /\ \A t \in Threads : pc[t] = "idle"
          /\ \A t \in Threads :
                pc[t] = "reserve" =>
                   /\ mutex_.exclusive
                   /\ ~populate_can_lock(mutex_)
                   /\ init.pc = "done"
                   /\ \A u \in Threads \ {t} : ~InPopulate(u))
    /\ [][/\ (init.pc = "locked" /\ init'.pc = "distributed") =>
                /\ RowItems' - RowItems = Len(hashes_) - Len(hashes_')
                /\ RowItems' - RowItems <= init.blocks
          /\ \A t \in Threads :
                PopulateReserves(t) =>
                   /\ size'[t] = hashes_size(hashes_)
                   /\ RowItems' - RowItems = Len(hashes_) - Len(hashes_')
                   /\ RowItems' - RowItems <= size'[t]
          /\ hashes_' # hashes_ =>
                \/ init.pc = "locked" /\ init'.pc = "distributed"
                \/ \E t \in Threads : PopulateReserves(t)]_vars

\* A reserve has popped every item the hash queue held when it read the
\* size, as many pops as the size read, onto a row with room for them.
C20_Witness ==
    \E t \in Threads :
        /\ pc[t] = "partition"
        /\ size[t] >= 1
        /\ hashes_ = <<>>
        /\ Len(queue[row[t]]) = existing[t] + size[t]
====
